---- MODULE Spec2Model ----
(***************************************************************************)
(* A model of the YU automations: the Event Notifier (yu-event-alerts.js)  *)
(* and the Shift Summarizer (yu-gym-shifts.js, yu-gym-shifts-gh.js).       *)
(*                                                                         *)
(* Instants are counted in hours.  Event ids are positive integers; 0      *)
(* stands for a field the record does not carry.                           *)
(***************************************************************************)
EXTENDS Integers, Sequences, FiniteSets, TLC

\* ------------------------------------------------------------------ bounds
\* Number of runs of the Event Notifier a behaviour may start.
MaxRuns == 2

\* ------------------------------------------------------- program constants
\* newEvents.slice(0, 10)
MaxNotify == 10
\* 1000 * 60 * 60 * 24 ms, in hours
HoursPerDay == 24
PERIOD_LENGTH_DAYS == 14

\* ------------------------------------------------------------------- state
\* Event Notifier
VARIABLES
    file,      \* events-cache.json
    outbox,    \* the mails delivered: <<[run, proc, ev]>>
    now,       \* the clock
    runs,      \* runs started so far
    run,       \* per process: the run's position and locals
    added,     \* history: <<id, n>> when run n wrote id to the file as newly seen
    served     \* the feeds the calendar server may answer with

nvars == <<file, outbox, now, runs, run, added, served>>

\* Shift Summarizer
VARIABLES
    variant,        \* which script runs
    creds,          \* GMAIL_USER and GMAIL_APP_PASSWORD are set
    nowS,           \* new Date() of the run
    sheet,          \* the rows of the spreadsheet export
    localFile,      \* gym-shifts.csv: [exists, rows]
    spc,            \* position of the run
    rows,
    pos,            \* index of the row the loop is at
    currentPeriod,
    totalHours,
    shiftLines,
    seenShifts,
    contrib,        \* history: indices of the rows that were accumulated
    fetched,        \* history: how rows were obtained
    sOutbox,        \* summaries delivered
    sExit           \* exit code, -1 while running

svars == <<variant, creds, nowS, sheet, localFile, spc, rows, pos, currentPeriod,
           totalHours, shiftLines, seenShifts, contrib, fetched, sOutbox, sExit>>

\* getPayPeriod on its own
VARIABLES
    payArg,     \* the argument
    payResult,  \* the result
    called      \* getPayPeriod has returned

pvars == <<payArg, payResult, called>>

vars == <<nvars, svars, pvars>>

\* ------------------------------------------------------------ small helpers
Range(s) == {s[i] : i \in 1..Len(s)}

Min(a, b) == IF a <= b THEN a ELSE b

\* Math.floor(a / b) for b > 0 (TLA+'s \div already rounds towards minus
\* infinity).
Floor(a, b) == a \div b

\* ===========================================================================
\* Event Notifier
\* ===========================================================================

Procs == {1, 2}

NoField == 0

\* A VEVENT block: the fields the regular expressions of fetchEvents pick.
Rec(u, s, d) == [uid |-> u, summary |-> s, dtStart |-> d]

\* DTSTART values: absent, text whose digits do not parse, or an instant.
NoStart == [k |-> "absent", t |-> 0]
BadStart == [k |-> "garbage", t |-> 0]
At(t) == [k |-> "at", t |-> t]

\* Instants the runs happen at, and the feeds they may be served.
NowValues == {30, 50, 75}

FeedBig == [i \in 1..(MaxNotify + 2) |-> Rec(i, 1, At(200))]
FeedSmall == <<Rec(2, 1, At(200)), Rec(1, 1, At(200)), Rec(13, 1, At(210))>>
FeedDup == <<Rec(14, 1, At(200)), Rec(14, 1, At(220)), Rec(1, 1, At(200))>>
FeedMixed ==
    <<Rec(15, NoField, At(200)), Rec(16, 1, At(47)), Rec(NoField, 1, At(200)),
      Rec(17, 1, NoStart), Rec(18, 1, BadStart), Rec(19, 1, At(48))>>
FeedEmpty == <<>>

Feeds == {FeedBig, FeedSmall, FeedDup, FeedMixed, FeedEmpty}

\* The feeds served while runs may overlap.
RaceFeeds == {FeedSmall, FeedDup}

\* Bodies a non-2xx response may carry.
ErrorBodies == {FeedEmpty, FeedSmall}

\* ---- parseICalDate
\* null for a missing string; otherwise a Date, which is an Invalid Date when
\* the digits do not parse (substring and parseInt never throw).
parseICalDate(str) ==
    IF str.k = "absent" THEN [k |-> "null", t |-> 0]
    ELSE IF str.k = "garbage" THEN [k |-> "invalid", t |-> 0]
    ELSE [k |-> "date", t |-> str.t]

\* today.setHours(0, 0, 0, 0): the start of the current day
Today(t) == t - (t % HoursPerDay)

\* start && start < today  (an Invalid Date compares false)
IsPastMutant(start, today) == start.k = "date" /\ start.t <= today
IsPast(start, today) == start.k = "date" /\ start.t < today

\* toLocaleDateString / toLocaleTimeString, or 'TBD' for a null start
FormatStart(start) ==
    IF start.k = "null" THEN [k |-> "TBD", t |-> 0]
    ELSE IF start.k = "invalid" THEN [k |-> "Invalid Date", t |-> 0]
    ELSE [k |-> "formatted", t |-> start.t]

\* if (!uid || !summary) continue
IsWellFormedMutant(block) == block.uid # NoField
IsWellFormed(block) == block.uid # NoField /\ block.summary # NoField

MakeEvent(block) ==
    LET start == parseICalDate(block.dtStart)
    IN  [id |-> block.uid, start |-> start,
         date |-> FormatStart(start), time |-> FormatStart(start)]

\* The loop of fetchEvents over the blocks of the feed, in feed order.
RECURSIVE ParseBlocks(_, _)
ParseBlocks(blocks, today) ==
    IF blocks = <<>> THEN <<>>
    ELSE LET block == Head(blocks)
             rest == ParseBlocks(Tail(blocks), today)
         IN  IF ~IsWellFormed(block) THEN rest
             ELSE IF IsPast(parseICalDate(block.dtStart), today) THEN rest
             ELSE <<MakeEvent(block)>> \o rest

\* ---- the cache file
\* kind: "missing", "garbage" (not JSON), "null", "scalar" (a JSON number,
\* string or boolean), "array" (a JSON array), "objNoField" (an object with
\* no seenIds), "objBadField" (seenIds is not iterable), "object" (an object
\* whose seenIds is the array ids).
File(k, ids) == [kind |-> k, ids |-> ids]

FreshCache == File("object", <<>>)

\* loadCache: the parsed file, or { seenIds: [] } when it is missing or does
\* not parse.
loadCache(f) ==
    IF f.kind \in {"missing", "garbage"} THEN FreshCache ELSE f

\* new Set(cache.seenIds) throws on null and on a seenIds that is not iterable
SetThrows(c) == c.kind \in {"null", "objBadField"}

\* A Set, as the sequence of its elements in insertion order.
RECURSIVE SetFromArray(_)
SetFromArray(arr) ==
    IF arr = <<>> THEN <<>>
    ELSE LET init == SetFromArray(SubSeq(arr, 1, Len(arr) - 1))
             x == arr[Len(arr)]
         IN  IF x \in Range(init) THEN init ELSE Append(init, x)

\* new Set(cache.seenIds): empty when cache.seenIds is undefined
SeenSetOf(c) == IF c.kind = "object" THEN SetFromArray(c.ids) ELSE <<>>

SetAdd(s, x) == IF x \in Range(s) THEN s ELSE Append(s, x)

\* events.filter(e => !seenIds.has(e.id))
FilterNewMutant(evs, seen) == evs
FilterNew(evs, seen) ==
    LET IsNew(e) == e.id \notin Range(seen)
    IN  SelectSeq(evs, IsNew)

\* newEvents.slice(0, 10)
SliceMutant(evs) == evs
Slice(evs) == SubSeq(evs, 1, Min(MaxNotify, Len(evs)))

\* for (const event of newEvents) seenIds.add(event.id)
RECURSIVE AddAll(_, _)
AddAll(seen, evs) ==
    IF evs = <<>> THEN seen
    ELSE SetAdd(AddAll(seen, SubSeq(evs, 1, Len(evs) - 1)), evs[Len(evs)].id)

MarkSeenMutant(seen, evs) == AddAll(<<>>, evs)
MarkSeenCapped(seen, evs) ==
    AddAll(seen, SubSeq(evs, 1, Min(MaxNotify, Len(evs))))
MarkSeen(seen, evs) == AddAll(seen, evs)

\* cache.seenIds = ... throws on a primitive (module code is strict)
AssignThrows(c) == c.kind = "scalar"

\* cache.seenIds = Array.from(seenIds); JSON.stringify(cache): an array
\* serialises its elements only, so the property set on it is not written.
StringifyMutant(c, seen) == c
Stringify(c, seen) ==
    IF c.kind = "array" THEN c ELSE File("object", seen)

\* The ids the file holds as its seen-set.
IdsOf(f) == IF f.kind = "object" THEN Range(f.ids) ELSE {}

\* What a process keeps, as history, of the run it made before the current
\* one.
PrevOf(r) ==
    [no |-> r.no, failed |-> r.failed, feed |-> r.feed,
     fileAtStart |-> r.fileAtStart, newEvents |-> r.newEvents, idx |-> r.idx]

NoPrev ==
    [no |-> 0, failed |-> "none", feed |-> <<>>,
     fileAtStart |-> [kind |-> "missing", ids |-> <<>>], newEvents |-> <<>>,
     idx |-> 1]

\* A process that runs main: its position, its locals, and as history the
\* file it found (fileAtStart), the reason it aborted (failed), the steps of
\* its delivery loop in order (trace: "start", "done", "fail" of a sendMail
\* call, "delay" of the pause) and its previous run (prev).
IdleRun ==
    [pc |-> "idle", no |-> 0, status |-> 0, feed |-> <<>>, today |-> 0,
     events |-> <<>>, cache |-> FreshCache,
     seenIds |-> <<>>, newEvents |-> <<>>, eventsToNotify |-> <<>>, idx |-> 1,
     exitCode |-> -1, fileAtStart |-> File("missing", <<>>), writes |-> 0,
     failed |-> "none", trace |-> <<>>, prev |-> NoPrev]

\* Files a run can find that an earlier run wrote (or none at all).
GoodFiles == {File("missing", <<>>), File("object", <<>>), File("object", <<1, 16>>)}

\* Files damaged or written by something else.
OddFiles ==
    {File("garbage", <<>>), File("null", <<>>), File("scalar", <<>>),
     File("array", <<1>>), File("objNoField", <<>>), File("objBadField", <<>>),
     File("object", <<2, 2, 1>>)}

NInitWith(files) ==
    /\ file \in files
    /\ outbox = <<>>
    /\ now \in NowValues
    /\ runs = 0
    /\ run = [p \in Procs |-> IdleRun]
    /\ added = {}
    /\ served = Feeds

\* node yu-event-alerts.js
StartRun(p) ==
    /\ run[p].pc = "idle"
    /\ runs < MaxRuns
    /\ runs' = runs + 1
    /\ \E t \in NowValues : t >= now /\ now' = t
    /\ run' = [run EXCEPT ![p] =
                 [IdleRun EXCEPT !.pc = "fetch", !.no = runs + 1,
                                 !.fileAtStart = file, !.prev = PrevOf(run[p])]]
    /\ UNCHANGED <<file, outbox, added, served, svars, pvars>>

\* The file after main's lines 209-216 ran on cache c.
SavedFile(c, seen, new) == Stringify(c, MarkSeen(seen, new))

\* The file after the catch block ran in run r: saveCache is not called there.
FileAfterAbortMutant(f, r) == SavedFile(r.cache, r.seenIds, r.newEvents)
FileAfterAbort(f, r) == f

\* catch (error) { process.exit(1) }
AbortedMutant(r, why) == [r EXCEPT !.pc = "delay", !.failed = why]
Aborted(r, why) == [r EXCEPT !.pc = "idle", !.exitCode = 1, !.failed = why]

\* fetch(ICAL_URL) rejects: a network failure
FetchFail(p) ==
    /\ run[p].pc = "fetch"
    /\ run' = [run EXCEPT ![p] = Aborted(@, "fetch")]
    /\ file' = FileAfterAbort(file, run[p])
    /\ UNCHANGED <<outbox, now, runs, added, served, svars, pvars>>

\* fetchEvents with a response of any status: response.ok is never read
FetchOk(p) ==
    /\ run[p].pc = "fetch"
    /\ \E st \in {200, 503} :
         \E body \in (IF st = 200 THEN served ELSE ErrorBodies) :
            run' = [run EXCEPT ![p] =
                      [@ EXCEPT !.pc = "load", !.status = st, !.feed = body,
                                !.today = Today(now),
                                !.events = ParseBlocks(body, Today(now))]]
    /\ UNCHANGED <<file, outbox, now, runs, added, served, svars, pvars>>

\* loadCache, new Set, filter, slice (main, lines 189-200)
Load(p) ==
    /\ run[p].pc = "load"
    /\ LET c == loadCache(file)
           seen == SeenSetOf(c)
           new == FilterNew(run[p].events, seen)
       IN  /\ run' = [run EXCEPT ![p] =
                     IF SetThrows(c) THEN Aborted(@, "state")
                     ELSE [@ EXCEPT !.pc = "send", !.cache = c, !.seenIds = seen,
                                    !.newEvents = new, !.eventsToNotify = Slice(new),
                                    !.idx = 1]]
           /\ file' = IF SetThrows(c) THEN FileAfterAbort(file, run[p]) ELSE file
    /\ UNCHANGED <<outbox, now, runs, added, served, svars, pvars>>

\* sendEmail(event): transporter.sendMail is called
SendStart(p) ==
    /\ run[p].pc = "send"
    /\ run[p].idx <= Len(run[p].eventsToNotify)
    /\ run' = [run EXCEPT ![p] =
                 [@ EXCEPT !.pc = "sending", !.trace = Append(@, "start")]]
    /\ UNCHANGED <<file, outbox, now, runs, added, served, svars, pvars>>

\* transporter.sendMail resolves: the mail is delivered
SendOkMutant(p) ==
    /\ run[p].pc = "sending"
    /\ outbox' = Append(outbox, [run |-> run[p].no, proc |-> p,
                                 ev |-> run[p].eventsToNotify[run[p].idx]])
    /\ run' = [run EXCEPT ![p] =
                 [@ EXCEPT !.pc = "send", !.idx = @ + 1,
                           !.trace = Append(@, "done")]]
    /\ UNCHANGED <<file, now, runs, added, served, svars, pvars>>
SendOk(p) ==
    /\ run[p].pc = "sending"
    /\ outbox' = Append(outbox, [run |-> run[p].no, proc |-> p,
                                 ev |-> run[p].eventsToNotify[run[p].idx]])
    /\ run' = [run EXCEPT ![p] =
                 [@ EXCEPT !.pc = "delay", !.trace = Append(@, "done")]]
    /\ UNCHANGED <<file, now, runs, added, served, svars, pvars>>

\* transporter.sendMail rejects
SendFail(p) ==
    /\ run[p].pc = "sending"
    /\ run' = [run EXCEPT ![p] =
                 Aborted([@ EXCEPT !.trace = Append(@, "fail")], "delivery")]
    /\ file' = FileAfterAbort(file, run[p])
    /\ UNCHANGED <<outbox, now, runs, added, served, svars, pvars>>

\* await new Promise(resolve => setTimeout(resolve, 2000))
Delay(p) ==
    /\ run[p].pc = "delay"
    /\ run' = [run EXCEPT ![p] =
                 [@ EXCEPT !.pc = "send", !.idx = @ + 1,
                           !.trace = Append(@, "delay")]]
    /\ UNCHANGED <<file, outbox, now, runs, added, served, svars, pvars>>

\* mark all new events seen, cache.seenIds = ..., saveCache (lines 209-218)
Save(p) ==
    /\ run[p].pc = "send"
    /\ run[p].idx > Len(run[p].eventsToNotify)
    /\ IF AssignThrows(run[p].cache)
       THEN /\ run' = [run EXCEPT ![p] = Aborted(@, "state")]
            /\ file' = FileAfterAbort(file, run[p])
            /\ UNCHANGED added
       ELSE /\ file' = SavedFile(run[p].cache, run[p].seenIds, run[p].newEvents)
            /\ run' = [run EXCEPT ![p] =
                         [@ EXCEPT !.pc = "idle", !.exitCode = 0,
                                   !.seenIds = MarkSeen(run[p].seenIds, run[p].newEvents),
                                   !.writes = @ + 1]]
            /\ added' = added \cup
                 {<<i, run[p].no>> : i \in IdsOf(file') \ IdsOf(file)}
    /\ UNCHANGED <<outbox, now, runs, served, svars, pvars>>

Step(p) ==
    \/ StartRun(p)
    \/ FetchFail(p)
    \/ FetchOk(p)
    \/ Load(p)
    \/ SendStart(p)
    \/ SendOk(p)
    \/ SendFail(p)
    \/ Delay(p)
    \/ Save(p)

\* ===========================================================================
\* Shift Summarizer
\* ===========================================================================
\* Text is a sequence of character codes, so that sort() orders it as
\* JavaScript does.  Hours are counted in tenths of an hour.

\* Number of rows a sheet may hold.
MaxRows == 3

\* ---- calendar arithmetic of the Date constructor and of setDate
IsLeap(y) == (y % 4 = 0 /\ y % 100 # 0) \/ y % 400 = 0

DaysInMonth(y, m) ==
    IF m = 2 THEN (IF IsLeap(y) THEN 29 ELSE 28)
    ELSE IF m \in {4, 6, 9, 11} THEN 30 ELSE 31

DaysInYear(y) == IF IsLeap(y) THEN 366 ELSE 365

RECURSIVE DaysBeforeMonth(_, _)
DaysBeforeMonth(y, m) ==
    IF m <= 1 THEN 0 ELSE DaysBeforeMonth(y, m - 1) + DaysInMonth(y, m - 1)

RECURSIVE YearStart(_)
YearStart(y) ==
    IF y = 2025 THEN 0
    ELSE IF y > 2025 THEN YearStart(y - 1) + DaysInYear(y - 1)
    ELSE YearStart(y + 1) - DaysInYear(y)

\* new Date(y, m - 1, d) as a count of local calendar days; a month or day
\* out of range rolls over as the constructor does.
Ordinal(y, m, d) ==
    LET yy == y + ((m - 1) \div 12)
        mm == ((m - 1) % 12) + 1
    IN  YearStart(yy) + DaysBeforeMonth(yy, mm) + d - 1

\* new Date('2025-11-29T00:00:00'): local midnight of that day
ANCHOR_DATE == [y |-> 2025, m |-> 11, d |-> 29]

\* Local calendar days since the anchor's day.
DayNumber(y, m, d) ==
    Ordinal(y, m, d) - Ordinal(ANCHOR_DATE.y, ANCHOR_DATE.m, ANCHOR_DATE.d)

\* ---- the local time zone
\* A zone either keeps one UTC offset ("fixed": UTC on the scheduled
\* runner) or observes daylight saving time ("dst": America/New_York, where
\* the anchor lies in standard time).  Shift is the number of hours the
\* zone's offset on a local day is ahead of its offset on the anchor's day;
\* it is given for the days between March 2025 and November 2026.
Zones == {"fixed", "dst"}

DstEnd == DayNumber(2025, 11, 2)
DstBegin == DayNumber(2026, 3, 8)

Shift(zone, day) ==
    IF zone = "dst" /\ (day < DstEnd \/ day > DstBegin) THEN 1 ELSE 0

\* A Date: its local calendar day (since the anchor's), its local hour, and
\* the zone's shift on that day.
DateAt(zone, day, hour) == [day |-> day, hour |-> hour, shift |-> Shift(zone, day)]

\* date.getTime() - ANCHOR_DATE.getTime(), in hours
TimeDiff(date) == date.day * HoursPerDay + date.hour - date.shift

\* ---- getPayPeriod
\* periodStart and periodEnd are local midnights, given by their day.
PeriodIndex(date) ==
    LET daysDiff == Floor(TimeDiff(date), HoursPerDay)
    IN  Floor(daysDiff, PERIOD_LENGTH_DAYS)

getPayPeriod(date) ==
    LET periodStart == PeriodIndex(date) * PERIOD_LENGTH_DAYS
        periodEnd == periodStart + PERIOD_LENGTH_DAYS - 1
    IN  [periodStart |-> periodStart, periodEnd |-> periodEnd]

\* ---- text
RECURSIVE DigitsOf(_)
DigitsOf(n) ==
    IF n < 10 THEN <<48 + n>> ELSE DigitsOf(n \div 10) \o <<48 + (n % 10)>>

Pad2(n) == IF n < 10 THEN <<48>> \o DigitsOf(n) ELSE DigitsOf(n)

\* `${hours}` for a number of tenths: "3", "2.5"
NumberText(v) ==
    DigitsOf(v \div 10) \o (IF v % 10 = 0 THEN <<>> ELSE <<46, 48 + (v % 10)>>)

\* a < b as strings: by code unit, a proper prefix first
RECURSIVE LexLess(_, _)
LexLess(a, b) ==
    IF b = <<>> THEN FALSE
    ELSE IF a = <<>> THEN TRUE
    ELSE IF Head(a) # Head(b) THEN Head(a) < Head(b)
    ELSE LexLess(Tail(a), Tail(b))

\* ---- rows
\* Date: k is "empty", "header" ("Date"), "placeholder" ("MM/DD/YYYY"),
\* "noslash" (does not split into three parts), "nan" (three parts that are
\* not numbers) or "mdy" (m/d/y, zero-padded when pad).
DateField(k, m, d, y, pad) == [k |-> k, m |-> m, d |-> d, y |-> y, pad |-> pad]
Mdy(m, d, y) == DateField("mdy", m, d, y, TRUE)

\* Hours: a number of tenths, or text that is no number.
Num(v) == [k |-> "num", v |-> v]
NoNum == [k |-> "text", v |-> 0]

Row(date, start, end, hours) ==
    [Date |-> date, StartTime |-> start, EndTime |-> end, Hours |-> hours]

\* "9:00", "12:00", "14:00", "16:00"
T9 == <<57, 58, 48, 48>>
T12 == <<49, 50, 58, 48, 48>>
T14 == <<49, 52, 58, 48, 48>>
T16 == <<49, 54, 58, 48, 48>>

RowPool ==
    {Row(Mdy(12, 1, 2025), T9, T12, Num(30)),
     Row(Mdy(12, 1, 2025), T9, T12, Num(50)),
     Row(Mdy(11, 29, 2025), T14, T16, Num(25)),
     Row(Mdy(12, 12, 2025), T9, T12, Num(10)),
     Row(Mdy(11, 28, 2025), T9, T12, Num(40)),
     Row(Mdy(12, 13, 2025), T14, T16, Num(20)),
     Row(Mdy(12, 5, 2025), T9, T12, NoNum),
     Row(DateField("header", 0, 0, 0, TRUE), T9, T12, Num(30)),
     Row(DateField("noslash", 0, 0, 0, TRUE), T9, T12, Num(30)),
     Row(DateField("nan", 0, 0, 0, TRUE), T9, T12, Num(30))}

Sheets == UNION {[1..n -> RowPool] : n \in 0..MaxRows}

\* Sheets whose dates are all zero-padded MM/DD/YYYY, with shifts in the pay
\* period 11/29/2025 - 12/12/2025 and in 12/27/2025 - 01/09/2026.
PaddedPool ==
    {Row(Mdy(12, 1, 2025), T9, T12, Num(30)),
     Row(Mdy(11, 30, 2025), T14, T16, Num(25)),
     Row(Mdy(12, 10, 2025), T9, T12, Num(10)),
     Row(Mdy(12, 28, 2025), T9, T12, Num(30)),
     Row(Mdy(12, 30, 2025), T14, T16, Num(20)),
     Row(Mdy(1, 5, 2026), T9, T12, Num(40))}

PaddedSheets == UNION {[1..n -> PaddedPool] : n \in 0..MaxRows}

\* The rows of gym-shifts.csv, when the file exists.
LocalSheets == {<<Row(Mdy(12, 1, 2025), T9, T12, Num(30))>>}

\* The text of row.Date
DateText(f) ==
    IF f.k = "mdy"
    THEN (IF f.pad THEN Pad2(f.m) ELSE DigitsOf(f.m)) \o <<47>>
         \o (IF f.pad THEN Pad2(f.d) ELSE DigitsOf(f.d)) \o <<47>> \o DigitsOf(f.y)
    ELSE IF f.k = "header" THEN <<68, 97, 116, 101>>
    ELSE IF f.k = "placeholder" THEN <<77, 77, 47, 68, 68, 47, 89, 89, 89, 89>>
    ELSE IF f.k = "noslash" THEN <<50, 48, 50, 53, 45, 49, 50, 45, 48, 49>>
    ELSE IF f.k = "nan" THEN <<97, 47, 98, 47, 99>>
    ELSE <<>>

\* !row.Date || row.Date === 'Date' || row.Date === 'MM/DD/YYYY', or
\* dateParts.length !== 3
SkipsRow(row) == row.Date.k \in {"empty", "header", "placeholder", "noslash"}

\* `${row.Date}|${row['Start Time']}|${row['End Time']}`
ShiftKey(row) == DateText(row.Date) \o <<124>> \o row.StartTime \o <<124>> \o row.EndTime

\* new Date(parseInt(y), parseInt(m) - 1, parseInt(d)): a local midnight, or
\* an Invalid Date
RowDate(row) ==
    IF row.Date.k = "mdy"
    THEN [valid |-> TRUE, day |-> DayNumber(row.Date.y, row.Date.m, row.Date.d)]
    ELSE [valid |-> FALSE, day |-> 0]

\* rowDate >= periodStart && rowDate <= periodEnd (false for an Invalid Date)
InPeriodMutant(rowDate, period) ==
    rowDate.valid /\ rowDate.day >= period.periodStart /\ rowDate.day < period.periodEnd
InPeriod(rowDate, period) ==
    rowDate.valid /\ rowDate.day >= period.periodStart /\ rowDate.day <= period.periodEnd

\* parseFloat(row.Hours) || 0
ParseHours(h) == IF h.k = "num" THEN h.v ELSE 0

\* `${row.Date} — ${hours} ${hourText} (${row['Start Time']} - ${row['End Time']})`
ShiftLine(row) ==
    LET hours == ParseHours(row.Hours)
        hourText == IF hours = 10 THEN <<104, 111, 117, 114>>
                    ELSE <<104, 111, 117, 114, 115>>
    IN  DateText(row.Date) \o <<32, 8212, 32>> \o NumberText(hours) \o <<32>>
        \o hourText \o <<32, 40>> \o row.StartTime \o <<32, 45, 32>>
        \o row.EndTime \o <<41>>

\* shiftLines.sort()
RECURSIVE Insert(_, _)
Insert(line, sorted) ==
    IF sorted = <<>> THEN <<line>>
    ELSE IF LexLess(line, Head(sorted)) THEN <<line>> \o sorted
    ELSE <<Head(sorted)>> \o Insert(line, Tail(sorted))

RECURSIVE Sort(_)
Sort(lines) ==
    IF lines = <<>> THEN <<>> ELSE Insert(Head(lines), Sort(Tail(lines)))

\* The standalone script keeps seenShifts; the scheduled one has none.
Variants == {"standalone", "scheduled"}

Dedups(v) == v = "standalone"


\* Instants a run of the summarizer may happen at.
RunDates == {DateAt("fixed", 5, 23), DateAt("fixed", 20, 9)}

SIdle ==
    /\ spc = "start"
    /\ rows = <<>>
    /\ pos = 1
    /\ currentPeriod = [periodStart |-> 0, periodEnd |-> 0]
    /\ totalHours = 0
    /\ shiftLines = <<>>
    /\ seenShifts = {}
    /\ contrib = <<>>
    /\ fetched = "none"
    /\ sOutbox = <<>>
    /\ sExit = -1

SInit ==
    /\ variant \in Variants
    /\ creds \in (IF variant = "scheduled" THEN BOOLEAN ELSE {TRUE})
    /\ nowS \in RunDates
    /\ sheet \in Sheets
    /\ localFile \in {[exists |-> FALSE, rows |-> <<>>]}
                     \cup {[exists |-> TRUE, rows |-> r] : r \in LocalSheets}
    /\ SIdle

\* Runs in the pay periods of the padded sheets.
PaddedRunDates == {DateAt("fixed", 5, 23), DateAt("fixed", 33, 9)}

SInitPadded ==
    /\ variant \in Variants
    /\ creds \in (IF variant = "scheduled" THEN BOOLEAN ELSE {TRUE})
    /\ nowS \in PaddedRunDates
    /\ sheet \in PaddedSheets
    /\ localFile \in {[exists |-> FALSE, rows |-> <<>>]}
                     \cup {[exists |-> TRUE, rows |-> r] : r \in LocalSheets}
    /\ SIdle

SKeep == UNCHANGED <<variant, creds, nowS, sheet, localFile, nvars, pvars>>

\* the scheduled script: credentials missing, process.exit(1)
SNoCreds ==
    /\ spc = "start" /\ ~creds
    /\ spc' = "done" /\ sExit' = 1
    /\ SKeep
    /\ UNCHANGED <<rows, pos, currentPeriod, totalHours, shiftLines, seenShifts,
                   contrib, fetched, sOutbox>>

\* const now = new Date(); const currentPeriod = getPayPeriod(now)
SPeriod ==
    /\ spc = "start" /\ creds
    /\ currentPeriod' = getPayPeriod(nowS)
    /\ spc' = "fetch"
    /\ SKeep
    /\ UNCHANGED <<rows, pos, totalHours, shiftLines, seenShifts, contrib,
                   fetched, sOutbox, sExit>>

\* fetchShifts: the export is served
SFetchOk ==
    /\ spc = "fetch"
    /\ rows' = sheet /\ fetched' = "remote"
    /\ spc' = "loop"
    /\ SKeep
    /\ UNCHANGED <<pos, currentPeriod, totalHours, shiftLines, seenShifts, contrib,
                   sOutbox, sExit>>

\* fetchShifts: the fetch rejects or the status is not ok.  The standalone
\* script falls back to the local file, or to no rows; the scheduled one
\* throws, and main exits 1.
SFetchFail ==
    /\ spc = "fetch"
    /\ IF variant = "standalone"
       THEN /\ rows' = (IF localFile.exists THEN localFile.rows ELSE <<>>)
            /\ fetched' = (IF localFile.exists THEN "local" ELSE "nothing")
            /\ spc' = "loop"
            /\ UNCHANGED sExit
       ELSE /\ spc' = "done" /\ sExit' = 1
            /\ fetched' = "failed"
            /\ UNCHANGED rows
    /\ SKeep
    /\ UNCHANGED <<pos, currentPeriod, totalHours, shiftLines, seenShifts, contrib,
                   sOutbox>>

\* one pass of  for (const row of rows)
SRow ==
    /\ spc = "loop" /\ pos <= Len(rows)
    /\ LET row == rows[pos]
           dup == Dedups(variant) /\ ShiftKey(row) \in seenShifts
           counts == ~SkipsRow(row) /\ ~dup /\ InPeriod(RowDate(row), currentPeriod)
       IN  /\ seenShifts' = IF Dedups(variant) /\ ~SkipsRow(row)
                            THEN seenShifts \cup {ShiftKey(row)} ELSE seenShifts
           /\ totalHours' = IF counts THEN totalHours + ParseHours(row.Hours)
                            ELSE totalHours
           /\ shiftLines' = IF counts THEN Append(shiftLines, ShiftLine(row))
                            ELSE shiftLines
           /\ contrib' = IF counts THEN Append(contrib, pos) ELSE contrib
    /\ pos' = pos + 1
    /\ SKeep
    /\ UNCHANGED <<spc, rows, currentPeriod, fetched, sOutbox, sExit>>

\* shiftLines.sort(), then the summary is handed to transporter.sendMail
SSort ==
    /\ spc = "loop" /\ pos > Len(rows)
    /\ shiftLines' = Sort(shiftLines)
    /\ spc' = "mail"
    /\ SKeep
    /\ UNCHANGED <<rows, pos, currentPeriod, totalHours, seenShifts, contrib,
                   fetched, sOutbox, sExit>>

\* transporter.sendMail resolves
SMailOk ==
    /\ spc = "mail"
    /\ sOutbox' = Append(sOutbox, [period |-> currentPeriod, lines |-> shiftLines,
                                   total |-> totalHours])
    /\ spc' = "done" /\ sExit' = 0
    /\ SKeep
    /\ UNCHANGED <<rows, pos, currentPeriod, totalHours, shiftLines, seenShifts,
                   contrib, fetched>>

\* transporter.sendMail rejects: catch, process.exit(1)
SMailFail ==
    /\ spc = "mail"
    /\ spc' = "done" /\ sExit' = 1
    /\ SKeep
    /\ UNCHANGED <<rows, pos, currentPeriod, totalHours, shiftLines, seenShifts,
                   contrib, fetched, sOutbox>>

SStep ==
    \/ SNoCreds
    \/ SPeriod
    \/ SFetchOk
    \/ SFetchFail
    \/ SRow
    \/ SSort
    \/ SMailOk
    \/ SMailFail

\* ===========================================================================
\* getPayPeriod on its own
\* ===========================================================================

\* Days around the anchor getPayPeriod is tried on.
DaysBefore == 45
DaysAfter == 115


PIdle ==
    /\ payArg = DateAt("fixed", 0, 0)
    /\ payResult = [periodStart |-> 0, periodEnd |-> 0]
    /\ called = FALSE

PInit ==
    /\ \E z \in Zones, day \in (0 - DaysBefore)..DaysAfter, h \in {0, 12, 23} :
          payArg = DateAt(z, day, h)
    /\ payResult = [periodStart |-> 0, periodEnd |-> 0]
    /\ called = FALSE

PCall ==
    /\ ~called
    /\ payResult' = getPayPeriod(payArg)
    /\ called' = TRUE
    /\ UNCHANGED <<payArg, nvars, svars>>

\* ===========================================================================
\* Specifications
\* ===========================================================================

NIdle ==
    /\ file = File("missing", <<>>)
    /\ outbox = <<>>
    /\ now = 30
    /\ runs = 0
    /\ run = [p \in Procs |-> IdleRun]
    /\ added = {}
    /\ served = Feeds

SQuiet ==
    /\ variant = "standalone" /\ creds = TRUE /\ nowS = DateAt("fixed", 0, 0)
    /\ sheet = <<>> /\ localFile = [exists |-> FALSE, rows |-> <<>>]
    /\ SIdle

Init == NInitWith(GoodFiles) /\ SQuiet /\ PIdle

Next == Step(1)

\* Runs of the Event Notifier one after the other, the state file as an
\* earlier run left it.
Spec == Init /\ [][Next]_vars

\* The same, from any state file.
InitAnyFile == NInitWith(GoodFiles \cup OddFiles) /\ SQuiet /\ PIdle

SpecAnyFile == InitAnyFile /\ [][Next]_vars

\* Runs of the Event Notifier started by two processes, which may overlap:
\* the steps of the two mains interleave at their awaits.
InitRace ==
    /\ file \in GoodFiles
    /\ outbox = <<>>
    /\ now = 75
    /\ runs = 0
    /\ run = [p \in Procs |-> IdleRun]
    /\ added = {}
    /\ served = RaceFeeds
    /\ SQuiet /\ PIdle

NextRace == Step(1) \/ Step(2)

SpecRace == InitRace /\ [][NextRace]_vars

\* One run of the Shift Summarizer.
InitShift == NIdle /\ SInit /\ PIdle

NextShift == SStep

SpecShift == InitShift /\ [][NextShift]_vars

\* One run of the Shift Summarizer on a sheet of zero-padded dates.
InitPadded == NIdle /\ SInitPadded /\ PIdle

SpecPadded == InitPadded /\ [][NextShift]_vars

\* getPayPeriod applied to one date.
InitPay == NIdle /\ SQuiet /\ PInit

NextPay == PCall

SpecPay == InitPay /\ [][NextPay]_vars

\* ===========================================================================
\* Properties
\* ===========================================================================

\* The mails run n delivered, in the order of delivery.
MailsOf(n) ==
    LET OfRun(m) == m.run = n
        mails == SelectSeq(outbox, OfRun)
    IN  [k \in 1..Len(mails) |-> mails[k].ev]

Started(p) == run[p].no > 0

Completed(p) == Started(p) /\ run[p].pc = "idle" /\ run[p].exitCode = 0

\* The parsed events of p's run whose id the file did not hold when the run
\* began.
NewAtStart(p) ==
    LET Unseen(e) == e.id \notin IdsOf(run[p].fileAtStart)
    IN  SelectSeq(run[p].events, Unseen)

\* C1: over runs that do not overlap, aborted ones included, no event id is
\* emailed more than once.  Stated here for mails of different runs: no event
\* id is emailed by two runs.
C1_AtMostOneEmailAcrossRuns ==
    \A i, j \in 1..Len(outbox) :
        outbox[i].ev.id = outbox[j].ev.id => outbox[i].run = outbox[j].run

\* C2: whatever the state file held when a run loaded it, and whether the run
\* completes or aborts, every id that was in the file before the run is in
\* the file during and after it.
C2_SeenSetMonotone ==
    \A p \in Procs :
        Started(p) => IdsOf(run[p].fileAtStart) \subseteq IdsOf(file)

\* C2 witness: a completed run that found ids in the file and wrote more.
C2_Witness ==
    \E p \in Procs :
        /\ Completed(p)
        /\ IdsOf(run[p].fileAtStart) # {}
        /\ IdsOf(file) # IdsOf(run[p].fileAtStart)

\* C3: an id that run N added to the seen-set is, in every later run, absent
\* from the new-event list and never emailed, whatever the feed holds.
C3_SeenStaysExcluded ==
    \A a \in added :
        /\ \A p \in Procs :
              a[2] < run[p].no =>
                  \A e \in Range(run[p].newEvents) : e.id # a[1]
        /\ \A k \in 1..Len(outbox) :
              a[2] < outbox[k].run => outbox[k].ev.id # a[1]

\* C3 witness: a later run has parsed an event whose id an earlier run added,
\* and has filtered its events.
C3_Witness ==
    \E p \in Procs, a \in added :
        /\ a[2] < run[p].no
        /\ run[p].pc = "send"
        /\ \E e \in Range(run[p].events) : e.id = a[1]

\* C4: a completed run with k new events has delivered exactly min(10, k)
\* mails, for the first min(10, k) new events in feed order, and the file
\* holds the ids of all k.
C4_NotificationCap ==
    \A p \in Procs :
        Completed(p) =>
            LET new == NewAtStart(p)
                k == Len(new)
            IN  /\ MailsOf(run[p].no) = SubSeq(new, 1, IF k < 10 THEN k ELSE 10)
                /\ \A e \in Range(new) : e.id \in IdsOf(file)

\* C4 witness: a completed run that had more than 10 new events.
C4_Witness ==
    \E p \in Procs : Completed(p) /\ Len(NewAtStart(p)) > 10

\* C5: a run writes the file at most once and only after all its deliveries;
\* a run aborted by a fetch or delivery failure delivered nothing after the
\* failure and left the file as it was before the run.
C5_NoPartialState ==
    \A p \in Procs :
        Started(p) =>
            /\ run[p].writes <= 1
            /\ run[p].writes = 1 =>
                  /\ run[p].pc = "idle"
                  /\ Len(MailsOf(run[p].no)) = Len(run[p].eventsToNotify)
            /\ (run[p].pc = "idle" /\ run[p].failed \in {"fetch", "delivery"}) =>
                  /\ file = run[p].fileAtStart
                  /\ run[p].writes = 0
                  /\ run[p].exitCode = 1
                  /\ Len(MailsOf(run[p].no)) =
                        (IF run[p].failed = "delivery" THEN run[p].idx - 1 ELSE 0)

\* C5 witness: a run aborted by a delivery failure after it had delivered a
\* mail and with mails still to deliver.
C5_Witness ==
    \E p \in Procs :
        /\ run[p].pc = "idle" /\ run[p].failed = "delivery"
        /\ run[p].idx >= 2
        /\ run[p].idx < Len(run[p].eventsToNotify)

\* A block that carries an id and a title.
HasIdAndTitle(b) == b.uid # NoField /\ b.summary # NoField

\* A block whose start is an instant strictly before the start of p's day.
StartsBeforeToday(p, b) == b.dtStart.k = "at" /\ b.dtStart.t < run[p].today

\* C6: in every run, a record that starts strictly before the start of the
\* current day is not in the parsed list, is not emailed and is not added to
\* the seen-set, whether or not its id is in the seen-set; a record with id
\* and title that starts at or after the start of the day is in the list.
C6_PastEventFilter ==
    \A p \in Procs :
        run[p].status # 0 =>
            /\ run[p].today % 24 = 0
            /\ run[p].today <= now /\ now < run[p].today + 24
            /\ \A e \in Range(run[p].events) \cup Range(MailsOf(run[p].no)) :
                  ~(e.start.k = "date" /\ e.start.t < run[p].today)
            /\ \A i \in 1..Len(run[p].feed) :
                  LET b == run[p].feed[i]
                  IN  (HasIdAndTitle(b) /\ ~StartsBeforeToday(p, b)) =>
                          \E e \in Range(run[p].events) :
                              e.id = b.uid /\ e.start.t = b.dtStart.t
            /\ \A a \in added :
                  a[2] = run[p].no =>
                      \E i \in 1..Len(run[p].feed) :
                          /\ run[p].feed[i].uid = a[1]
                          /\ HasIdAndTitle(run[p].feed[i])
                          /\ ~StartsBeforeToday(p, run[p].feed[i])

\* C6 witness: a completed run whose feed held a past record with an id of
\* the seen-set and a record starting exactly at the start of the day.
C6_Witness ==
    \E p \in Procs :
        /\ Completed(p)
        /\ \E i, j \in 1..Len(run[p].feed) :
              /\ HasIdAndTitle(run[p].feed[i])
              /\ StartsBeforeToday(p, run[p].feed[i])
              /\ run[p].feed[i].uid \in IdsOf(run[p].fileAtStart)
              /\ HasIdAndTitle(run[p].feed[j])
              /\ run[p].feed[j].dtStart = At(run[p].today)

\* C7: a run whose fetch ended in a network failure or a non-2xx status
\* aborts with a non-zero exit code, sends no mail and does not write the
\* file.
C7_FetchContract ==
    \A p \in Procs :
        (Started(p) /\ (run[p].failed = "fetch"
                        \/ (run[p].status # 0 /\ run[p].status \notin 200..299))) =>
            /\ Len(MailsOf(run[p].no)) = 0
            /\ run[p].writes = 0
            /\ run[p].pc = "idle" => run[p].exitCode # 0

\* C8: getPayPeriod(d) returns periodStart = anchor + 14 * floor((d - anchor)
\* / 14) days and periodEnd = periodStart + 13 days, with periodStart <= d <=
\* periodEnd; 2025-12-10 lies in [2025-11-29, 2025-12-12] and 2025-12-13 in
\* [2025-12-13, 2025-12-26].
C8_PayPeriodMath ==
    called =>
        /\ payResult.periodStart = 14 * (payArg.day \div 14)
        /\ payResult.periodEnd = payResult.periodStart + 13
        /\ payResult.periodStart <= payArg.day
        /\ payArg.day <= payResult.periodEnd
        /\ payArg.day = DayNumber(2025, 12, 10) =>
              /\ payResult.periodStart = DayNumber(2025, 11, 29)
              /\ payResult.periodEnd = DayNumber(2025, 12, 12)
        /\ payArg.day = DayNumber(2025, 12, 13) =>
              /\ payResult.periodStart = DayNumber(2025, 12, 13)
              /\ payResult.periodEnd = DayNumber(2025, 12, 26)

SameShift(a, b) ==
    a.Date = b.Date /\ a.StartTime = b.StartTime /\ a.EndTime = b.EndTime

\* C9: in either variant, of two rows with the same (Date, Start Time, End
\* Time) and different Hours only the first is accumulated into the total
\* and the display lines.
C9_ShiftDedup ==
    /\ Len(shiftLines) = Len(contrib)
    /\ \A j \in Range(contrib) :
          \A i \in 1..(j - 1) :
              (SameShift(rows[i], rows[j]) /\ rows[i].Hours # rows[j].Hours) => FALSE

\* The rows the loop of the running variant does not skip: the date splits
\* into three parts and is no header, and (where duplicates are tracked) no
\* earlier such row has the same shift.
NotSkipped(i) ==
    /\ rows[i].Date.k \in {"mdy", "nan"}
    /\ Dedups(variant) =>
          \A h \in 1..(i - 1) :
              rows[h].Date.k \in {"mdy", "nan"} => ~SameShift(rows[h], rows[i])

DayOfRow(i) == DayNumber(rows[i].Date.y, rows[i].Date.m, rows[i].Date.d)

\* The rows that are not skipped and are dated within the period, ends
\* included.
Counted ==
    {i \in 1..Len(rows) :
        /\ NotSkipped(i)
        /\ rows[i].Date.k = "mdy"
        /\ currentPeriod.periodStart <= DayOfRow(i)
        /\ DayOfRow(i) <= currentPeriod.periodEnd}

RECURSIVE SumHours(_)
SumHours(S) ==
    IF S = {} THEN 0
    ELSE LET i == CHOOSE x \in S : TRUE
         IN  (IF rows[i].Hours.k = "num" THEN rows[i].Hours.v ELSE 0)
             + SumHours(S \ {i})

\* C10: once every row is processed, the total is the sum of Hours
\* (unparsable as 0) over the rows that are not skipped and are dated within
\* [periodStart, periodEnd], the display lines are as many as those rows, and
\* a row dated the day before periodStart or the day after periodEnd is not
\* among them; the summary mailed carries that total and those lines.
C10_Aggregation ==
    (spc \in {"mail", "done"} /\ fetched \in {"remote", "local", "nothing"}) =>
        /\ totalHours = SumHours(Counted)
        /\ Len(shiftLines) = Cardinality(Counted)
        /\ Range(contrib) = Counted
        /\ \A i \in Range(contrib) :
              DayOfRow(i) \notin {currentPeriod.periodStart - 1,
                                  currentPeriod.periodEnd + 1}
        /\ \A k \in 1..Len(sOutbox) :
              /\ sOutbox[k].total = SumHours(Counted)
              /\ Len(sOutbox[k].lines) = Cardinality(Counted)

\* C10 witness: a summary was mailed for a sheet with a row on periodStart, a
\* row on periodEnd, and a row one day outside the period.
C10_Witness ==
    /\ spc = "done" /\ Len(sOutbox) = 1
    /\ \E i, j, k \in 1..Len(rows) :
          /\ rows[i].Date.k = "mdy" /\ DayOfRow(i) = currentPeriod.periodStart
          /\ rows[j].Date.k = "mdy" /\ DayOfRow(j) = currentPeriod.periodEnd
          /\ rows[k].Date.k = "mdy"
          /\ DayOfRow(k) \in {currentPeriod.periodStart - 1,
                              currentPeriod.periodEnd + 1}

\* C11: the parsed event list of a run is exactly the records of the feed
\* that carry both an id and a title and do not start before the current day,
\* in feed order; a record missing the id or the title is dropped and the
\* records after it are still parsed.
C11_ParsedIsFeedSubsequence ==
    \A p \in Procs :
        run[p].status # 0 =>
            LET Keep(b) == HasIdAndTitle(b) /\ ~StartsBeforeToday(p, b)
                kept == SelectSeq(run[p].feed, Keep)
            IN  /\ Len(run[p].events) = Len(kept)
                /\ \A k \in 1..Len(kept) :
                      /\ run[p].events[k].id = kept[k].uid
                      /\ run[p].events[k].start.t = kept[k].dtStart.t

\* C11 witness: a feed was parsed in which a record without title and a
\* record without id each come before a record that is in the parsed list.
C11_Witness ==
    \E p \in Procs :
        /\ run[p].status # 0
        /\ \E i, j, k \in 1..Len(run[p].feed) :
              /\ i < k /\ j < k
              /\ run[p].feed[i].summary = NoField
              /\ run[p].feed[j].uid = NoField
              /\ \E e \in Range(run[p].events) : e.id = run[p].feed[k].uid

FetchFailedNoFallback == fetched \in {"nothing", "failed"}

\* C13: a run of the Shift Summarizer that completes has sent exactly one
\* summary email; a run whose sheet fetch fails with no local fallback file
\* goes no further, sends no email and ends with a non-zero exit code.
C13_ShiftDeliveryCount ==
    /\ (spc = "done" /\ sExit = 0) => Len(sOutbox) = 1
    /\ FetchFailedNoFallback =>
          /\ spc = "done"
          /\ sExit # 0
          /\ sOutbox = <<>>

\* The first half of C13 alone: a completed run has sent exactly one email,
\* and no run ever sends two.
C13_CompletedSendsOne ==
    /\ (spc = "done" /\ sExit = 0) => Len(sOutbox) = 1
    /\ Len(sOutbox) <= 1

\* The number of entries of trace tr that are the tag.
CountOf(tr, tag) == Cardinality({i \in 1..Len(tr) : tr[i] = tag})

\* C14: within one run at most one mail delivery is in flight at any time,
\* the deliveries happen in feed order, and between the completion of one
\* delivery and the start of the next the delay step always occurs.
C14_SequentialDelivery ==
    \A p \in Procs :
        LET tr == run[p].trace
            inFlight == CountOf(tr, "start") - CountOf(tr, "done")
                        - CountOf(tr, "fail")
            mails == MailsOf(run[p].no)
            Cand(b) == /\ HasIdAndTitle(b)
                       /\ ~StartsBeforeToday(p, b)
                       /\ b.uid \notin IdsOf(run[p].fileAtStart)
            cands == SelectSeq(run[p].feed, Cand)
        IN  /\ inFlight \in {0, 1}
            /\ inFlight = 1 <=> run[p].pc = "sending"
            /\ \A i \in 1..Len(tr) :
                  /\ tr[i] = "start" => (i = 1 \/ tr[i - 1] = "delay")
                  /\ tr[i] \in {"done", "fail"} => (i > 1 /\ tr[i - 1] = "start")
                  /\ tr[i] = "delay" => (i > 1 /\ tr[i - 1] = "done")
            /\ Len(mails) = CountOf(tr, "done")
            /\ Len(mails) <= Len(cands)
            /\ \A k \in 1..Len(mails) :
                  /\ mails[k].id = cands[k].uid
                  /\ mails[k].start.t = cands[k].dtStart.t

\* C14 witness: a run has delivered a mail, paused, and started the delivery
\* of the next event.
C14_Witness ==
    \E p \in Procs :
        /\ run[p].pc = "sending"
        /\ Len(MailsOf(run[p].no)) >= 2
        /\ CountOf(run[p].trace, "delay") >= 2

\* p's current run has loaded the file and built its new-event list.
Loaded(p) ==
    \/ run[p].pc \in {"send", "sending", "delay"}
    \/ Completed(p)
    \/ run[p].failed = "delivery"

\* The events that were new in p's previous run and that it did not deliver
\* (from the one whose delivery failed on), those within the cap only when
\* capped, and of these the ones that are not past-dated in the current run.
Undelivered(p, capped) ==
    LET new == run[p].prev.newEvents
        last == IF capped THEN Min(10, Len(new)) ELSE Len(new)
    IN  {new[k] : k \in run[p].prev.idx..last}

StillCurrent(p, e) == ~(e.start.k = "date" /\ e.start.t < run[p].today)

\* C15: a run that aborts on a delivery failure marks none of its new events
\* seen; so in the next run, when it is served the same feed, every event the
\* aborted run did not deliver and that is not past-dated is new again, and
\* once that run completes it has emailed each such event within the cap.
C15_RetryByRescheduling ==
    \A p \in Procs :
        run[p].prev.failed = "delivery" =>
            /\ \A a \in added : a[2] # run[p].prev.no
            /\ run[p].fileAtStart = run[p].prev.fileAtStart
            /\ (Loaded(p) /\ run[p].feed = run[p].prev.feed) =>
                  \A e \in Undelivered(p, FALSE) :
                      StillCurrent(p, e) => e \in Range(run[p].newEvents)
            /\ (Completed(p) /\ run[p].feed = run[p].prev.feed) =>
                  \A e \in Undelivered(p, TRUE) :
                      StillCurrent(p, e) => e \in Range(MailsOf(run[p].no))

\* C15 witness: the run after one that aborted on a delivery failure was
\* served the same feed on a later day and completed; of the events the
\* aborted run left undelivered, one is past-dated by now and one is not.
C15_Witness ==
    \E p \in Procs :
        /\ run[p].prev.failed = "delivery"
        /\ Completed(p)
        /\ run[p].feed = run[p].prev.feed
        /\ \E e \in Undelivered(p, TRUE) : StillCurrent(p, e)
        /\ \E e \in Undelivered(p, TRUE) : ~StillCurrent(p, e)

\* Some mail of run n is for the id.
EmailedBy(n, id) == \E k \in 1..Len(outbox) : outbox[k].run = n /\ outbox[k].ev.id = id

\* C16: the mails of a completed run are its first 10 new events, and an
\* event that was new in it but beyond the 10-event cap is marked seen by it;
\* an id that a run marked seen without emailing it stays in the file and is
\* not emailed by any later run.
C16_OverflowDropped ==
    /\ \A p \in Procs :
          Completed(p) =>
              /\ MailsOf(run[p].no) =
                     SubSeq(run[p].newEvents, 1, Min(10, Len(run[p].newEvents)))
              /\ \A k \in 11..Len(run[p].newEvents) :
                    /\ run[p].newEvents[k].id \in IdsOf(file)
                    /\ \E a \in added : a[1] = run[p].newEvents[k].id
    /\ \A a \in added :
          ~EmailedBy(a[2], a[1]) =>
              /\ a[1] \in IdsOf(file)
              /\ \A k \in 1..Len(outbox) :
                    outbox[k].run > a[2] => outbox[k].ev.id # a[1]

\* C16 witness: a run completed on a feed that again held an event which an
\* earlier completed run had left beyond the cap.
C16_Witness ==
    \E p \in Procs, a \in added :
        /\ ~EmailedBy(a[2], a[1])
        /\ Completed(p) /\ run[p].no > a[2]
        /\ \E e \in Range(run[p].events) : e.id = a[1]

\* The ids of the events of a list.
IdsIn(evs) == {evs[k].id : k \in 1..Len(evs)}

\* C17: when runs overlap, a run that saves replaces the file by the ids it
\* loaded itself plus the ids of its own new events, whatever another run
\* wrote in between; by this an id is emailed by both runs and an id written
\* by the run that saved first is lost when the other run saves.
C17_SaveOverwritesWithOwnView ==
    [][file' # file =>
          \E p \in Procs :
              /\ run[p].pc = "send" /\ run'[p].pc = "idle"
              /\ run'[p].exitCode = 0
              /\ IdsOf(file') = Range(run[p].seenIds) \cup IdsIn(run[p].newEvents)]_vars

\* C17 witness: two overlapping runs have both completed, both have emailed
\* the same event id, and an id that the run which saved first wrote is
\* missing from the file the other run left.
C17_Witness ==
    /\ Completed(1) /\ Completed(2)
    /\ \E i, j \in 1..Len(outbox) :
          /\ outbox[i].run = run[1].no /\ outbox[j].run = run[2].no
          /\ outbox[i].ev.id = outbox[j].ev.id
    /\ \E a \in added :
          /\ a[2] \in {run[1].no, run[2].no}
          /\ a[1] \notin IdsOf(file)

\* A state file that is missing or corrupt: it does not parse, or it parses
\* to something that is not a mapping with an array of ids.
Corrupt(f) == f.kind # "object"

\* C18: a run that finds the state file missing or corrupt does not abort on
\* it; it proceeds with an empty seen-set, treats every parsed event as new,
\* and when it completes the file it wrote is a well-formed seen-set file.
C18_StateErrorRecovery ==
    \A p \in Procs :
        (Started(p) /\ Corrupt(run[p].fileAtStart)) =>
            /\ run[p].failed # "state"
            /\ Loaded(p) =>
                  /\ run[p].pc # "idle" => run[p].seenIds = <<>>
                  /\ run[p].newEvents = run[p].events
            /\ Completed(p) =>
                  /\ file.kind = "object"
                  /\ IdsOf(file) = IdsIn(run[p].events)

\* The part of C18 that the code does provide: the same, for a file that is
\* missing or does not parse.
C18_MissingOrUnparsable ==
    \A p \in Procs :
        (Started(p) /\ run[p].fileAtStart.kind \in {"missing", "garbage"}) =>
            /\ run[p].failed # "state"
            /\ Loaded(p) =>
                  /\ run[p].pc # "idle" => run[p].seenIds = <<>>
                  /\ run[p].newEvents = run[p].events
            /\ Completed(p) =>
                  /\ file.kind = "object"
                  /\ IdsOf(file) = IdsIn(run[p].events)

\* A record with id and title whose start is absent or does not parse.
StartUnknown(b) == HasIdAndTitle(b) /\ b.dtStart.k \in {"absent", "garbage"}

\* C19: a record with id and title whose start is absent or fails to parse
\* is not dropped by the past-event filter: it is in the parsed list, with
\* "TBD" as its date and as its time.
C19_UnknownStartIsTBD ==
    \A p \in Procs :
        run[p].status # 0 =>
            \A i \in 1..Len(run[p].feed) :
                StartUnknown(run[p].feed[i]) =>
                    \E e \in Range(run[p].events) :
                        /\ e.id = run[p].feed[i].uid
                        /\ e.date.k = "TBD"
                        /\ e.time.k = "TBD"

\* The part of C19 that the code does provide: such a record is in the parsed
\* list, and it is rendered "TBD" when its start is absent.
C19_UnknownStartIsKept ==
    \A p \in Procs :
        run[p].status # 0 =>
            \A i \in 1..Len(run[p].feed) :
                StartUnknown(run[p].feed[i]) =>
                    \E e \in Range(run[p].events) :
                        /\ e.id = run[p].feed[i].uid
                        /\ run[p].feed[i].dtStart.k = "absent" =>
                              (e.date.k = "TBD" /\ e.time.k = "TBD")

\* C20: within a single run no two delivered emails are for the same event
\* id, even when the feed holds several records with the same identifier.
C20_NoDuplicateWithinRun ==
    \A i, j \in 1..Len(outbox) :
        (i # j /\ outbox[i].run = outbox[j].run) =>
            outbox[i].ev.id # outbox[j].ev.id

\* The shift date of a display line: the date of a row it was made from.
DayOfLine(line) ==
    DayOfRow(CHOOSE i \in 1..Len(rows) :
                 rows[i].Date.k = "mdy" /\ ShiftLine(rows[i]) = line)

\* The display lines are in chronological order of shift date.
Chronological(lines) ==
    \A k, l \in 1..Len(lines) :
        k < l => DayOfLine(lines[k]) <= DayOfLine(lines[l])

\* The active pay period has days of two calendar years.
CrossesNewYear ==
    /\ currentPeriod.periodStart < DayNumber(2026, 1, 1)
    /\ DayNumber(2026, 1, 1) <= currentPeriod.periodEnd

\* C21: when every Date field is zero-padded MM/DD/YYYY, the display lines of
\* the summary that is sent, all of them of the active pay period, are in
\* chronological order of shift date, whichever pay period is the active one.
C21_ChronologicalDisplay ==
    \A k \in 1..Len(sOutbox) : Chronological(sOutbox[k].lines)

\* The part of C21 that the code does provide: the same, when the active pay
\* period lies within one calendar year.
C21_ChronologicalWithinYear ==
    ~CrossesNewYear => \A k \in 1..Len(sOutbox) : Chronological(sOutbox[k].lines)

====
